---- MODULE Spec2Model ----
(***************************************************************************)
(* express-mongo-error-handler: createErrorHandler(options) resolves a     *)
(* configuration once and returns the error middleware                     *)
(* (err, req, res, next).  One call of the middleware optionally logs,     *)
(* runs the custom handlers in array order, then the fixed chain of        *)
(* built-in rules, then the catch-all.                                     *)
(*                                                                         *)
(* JavaScript values are modelled as follows.                              *)
(*   - a string attribute is a string; a read of an absent attribute gives *)
(*     Undefined, a null one gives Null;                                   *)
(*   - a numeric attribute is <<>> when absent and <<n>> when present;     *)
(*   - an object or array attribute is a record tagged by k.               *)
(* A middleware call is synchronous, so it is one action; the calls it     *)
(* makes (logger, custom handlers, res.status, res.json) are recorded in   *)
(* order in result.calls.                                                  *)
(***************************************************************************)
EXTENDS Integers, Sequences, FiniteSets, TLC

\* Longest customHandlers array the caller passes.
MaxHandlers == 2

\* Most attributes set on one generated error value.
MaxAttrs == 2

\* The values undefined and null, where a string is expected.
Undefined == "<undefined>"

Null == "<null>"

UndefinedV == [k |-> "undefined"]

NullV == [k |-> "null"]

\* An array of strings.
Strings(s) == [k |-> "strings", v |-> s]

\* An array of {field, message} objects; the empty array is the empty array.
Fields(s) == IF s = <<>> THEN Strings(<<>>) ELSE [k |-> "fields", v |-> s]

\* An object whose values, in insertion order, are {path, message} objects.
Mapping(s) == [k |-> "object", v |-> s]

\* The object with the keys s, in insertion order.
Keys(s) == [k |-> "object", keys |-> s]

\* An array of issues or of path segments.
Array(s) == [k |-> "array", v |-> s]

\* {} : every attribute read gives undefined.
EmptyObject ==
  [ cls |-> "Object", name |-> Undefined, message |-> Undefined, code |-> <<>>,
    type |-> Undefined, status |-> <<>>, hasBody |-> FALSE, statusCode |-> <<>>,
    path |-> Undefined, value |-> Undefined, keyPattern |-> UndefinedV,
    errors |-> UndefinedV, issues |-> UndefinedV, stack |-> Undefined,
    unknownProperty |-> Undefined ]

(***************************************************************************)
(* Built-in rules, lines 58-261 of the createErrorHandler source.          *)
(***************************************************************************)

\* `${x}` of a string attribute: undefined and null print as their names.
Template(x) ==
  IF x = Undefined THEN "undefined" ELSE IF x = Null THEN "null" ELSE x

RECURSIVE Join(_, _)
\* Array.prototype.join
Join(s, sep) ==
  IF s = <<>> THEN ""
  ELSE IF Len(s) = 1 THEN s[1]
  ELSE s[1] \o sep \o Join(Tail(s), sep)

\* x is truthy, for a string attribute.
TruthyStr(x) == x \notin {Undefined, Null, ""}

\* x is truthy, for a numeric attribute.
TruthyNum(x) == x # <<>> /\ x[1] # 0

\* x is truthy, for an object or array attribute (an empty array is truthy).
TruthyObj(x) == x.k \notin {"undefined", "null"}

\* IsMalformedJson without the "body" in err test.
IsMalformedJson_NoBodyTest(err) ==
  err.cls = "SyntaxError" /\ err.status = <<400>>

IsMalformedJson(err) ==
  err.cls = "SyntaxError" /\ err.status = <<400>> /\ err.hasBody

\* IsTooLarge passing for every error that carries a type.
IsTooLarge_AnyType(err) == TruthyStr(err.type)

IsTooLarge(err) == err.type = "entity.too.large"

IsURIError(err) == err.cls = "URIError"

IsDuplicateKey(err) == err.code = <<11000>>

\* IsConnectivity without the MongoNetworkError alternative.
IsConnectivity_ServerSelectionOnly(err) == err.name = "MongooseServerSelectionError"

IsConnectivity(err) ==
  err.name = "MongooseServerSelectionError" \/ err.name = "MongoNetworkError"

IsDeclared(err) == TruthyNum(err.statusCode)

\* The names the built-in chain tests with err.name === "<name>".
NamedRules ==
  { "ValidationError", "CastError", "DocumentNotFoundError", "StrictModeError",
    "VersionError", "ParallelSaveError", "JsonWebTokenError",
    "TokenExpiredError", "NotBeforeError", "ZodError" }

\* MatchedRule with the duplicate-key test moved before the ValidationError test.
MatchedRule_DuplicateKeyFirst(err) ==
  IF IsMalformedJson(err) THEN "MalformedJson"
  ELSE IF IsTooLarge(err) THEN "TooLarge"
  ELSE IF IsURIError(err) THEN "URIError"
  ELSE IF IsDuplicateKey(err) THEN "DuplicateKey"
  ELSE IF err.name \in NamedRules THEN err.name
  ELSE IF IsConnectivity(err) THEN "Connectivity"
  ELSE IF IsDeclared(err) THEN "Declared"
  ELSE "CatchAll"

\* The first built-in rule whose test err satisfies, in the order of the code.
MatchedRule(err) ==
  IF IsMalformedJson(err) THEN "MalformedJson"
  ELSE IF IsTooLarge(err) THEN "TooLarge"
  ELSE IF IsURIError(err) THEN "URIError"
  ELSE IF err.name = "ValidationError" THEN "ValidationError"
  ELSE IF IsDuplicateKey(err) THEN "DuplicateKey"
  ELSE IF err.name = "CastError" THEN "CastError"
  ELSE IF err.name = "DocumentNotFoundError" THEN "DocumentNotFoundError"
  ELSE IF err.name = "StrictModeError" THEN "StrictModeError"
  ELSE IF err.name = "VersionError" THEN "VersionError"
  ELSE IF err.name = "ParallelSaveError" THEN "ParallelSaveError"
  ELSE IF IsConnectivity(err) THEN "Connectivity"
  ELSE IF err.name = "JsonWebTokenError" THEN "JsonWebTokenError"
  ELSE IF err.name = "TokenExpiredError" THEN "TokenExpiredError"
  ELSE IF err.name = "NotBeforeError" THEN "NotBeforeError"
  ELSE IF err.name = "ZodError" THEN "ZodError"
  ELSE IF IsDeclared(err) THEN "Declared"
  ELSE "CatchAll"

\* Body with success set to true.
Body_SuccessTrue(message, errors) ==
  [success |-> TRUE, message |-> message, errors |-> errors]

Body(message, errors) == [success |-> FALSE, message |-> message, errors |-> errors]

\* res.status(code) by the rule or handler `by`.
StatusCall(by, code) == [op |-> "status", by |-> by, code |-> code]

\* JsonCall as res.status(code); res.json(body): json called on res itself.
JsonCall_OnRes(by, body) == [op |-> "json", by |-> by, on |-> "res", body |-> body]

\* .json(body) on the value res.status returned.
JsonCall(by, body) ==
  [op |-> "json", by |-> by, on |-> "res.status(code)", body |-> body]

\* return res.status(code).json(body): both calls made, json's value returned.
Responded(by, code, body) ==
  [ calls |-> << StatusCall(by, code), JsonCall(by, body) >>,
    outcome |-> "returned", ret |-> "res" ]

\* A TypeError raised after the sink calls `calls` were made.
Threw(calls) == [calls |-> calls, outcome |-> "threw", ret |-> "TypeError"]

\* Object.values(err.errors).map(e => ({field: e.path, message: e.message}))
ValidationItems(errors) ==
  IF errors.k = "object"
    THEN [i \in 1..Len(errors.v) |->
            [field |-> errors.v[i].path, message |-> errors.v[i].message]]
    ELSE [i \in 1..Len(errors.v) |-> [field |-> Undefined, message |-> Undefined]]

\* fields.map(field => ({field, message: `Record with field '${field}' already exists`}))
DuplicateItems(keys) ==
  [i \in 1..Len(keys) |->
     [ field |-> keys[i],
       message |-> "Record with field '" \o Template(keys[i]) \o "' already exists" ]]

\* Every issue of the array has a path array.
IssuesJoinable(issues) == \A i \in 1..Len(issues) : issues[i].path.k = "array"

\* err.issues.map(issue => ({field: issue.path.join("."), message: issue.message}))
ZodItems(issues) ==
  [i \in 1..Len(issues) |->
     [field |-> Join(issues[i].path.v, "."), message |-> issues[i].message]]

\* DeclaredErrors falling back to the stack, when there is one, before the message.
DeclaredErrors_Stack(err) ==
  IF TruthyObj(err.errors) THEN err.errors
  ELSE Strings(<< IF TruthyStr(err.stack) THEN err.stack ELSE err.message >>)

\* err.errors || [err.message]
DeclaredErrors(err) ==
  IF TruthyObj(err.errors) THEN err.errors ELSE Strings(<< err.message >>)

\* The body of the built-in rule `rule`, run on err.
RunRule(rule, err) ==
  CASE rule = "MalformedJson" ->
         Responded(rule, 400, Body("Invalid JSON payload in request",
           Strings(<< "The request body JSON is invalid and could not be parsed" >>)))
    [] rule = "TooLarge" ->
         Responded(rule, 413, Body("JSON payload too large",
           Strings(<< "The request body data exceeds the maximum size limit" >>)))
    [] rule = "URIError" ->
         Responded(rule, 400, Body("Malformed URI",
           Strings(<< "The request URL contains invalid or malformed URI components" >>)))
    [] rule = "ValidationError" ->
         \* res.status(400) is called before the argument of json is evaluated
         IF err.errors.k \in {"undefined", "null"}
           THEN Threw(<< StatusCall(rule, 400) >>)
           ELSE Responded(rule, 400, Body("Schema validation failed",
                  Fields(ValidationItems(err.errors))))
    [] rule = "DuplicateKey" ->
         \* Object.keys(err.keyPattern) runs before res.status
         IF err.keyPattern.k \in {"undefined", "null"}
           THEN Threw(<< >>)
           ELSE Responded(rule, 409, Body("Duplicate key violation",
                  Fields(DuplicateItems(err.keyPattern.keys))))
    [] rule = "CastError" ->
         Responded(rule, 400, Body("Invalid object ID",
           Fields(<< [ field |-> err.path,
                       message |-> "Value (" \o Template(err.value)
                                   \o ") is not valid for " \o Template(err.path) ] >>)))
    [] rule = "DocumentNotFoundError" ->
         Responded(rule, 404, Body("Requested resource not found",
           Strings(<< "The record being accessed does not exist in the database" >>)))
    [] rule = "StrictModeError" ->
         Responded(rule, 400, Body("Field not defined in schema",
           Fields(<< [ field |-> err.path,
                       message |-> "The field '" \o Template(err.path)
                                   \o "' does not exist in the schema" ] >>)))
    [] rule = "VersionError" ->
         Responded(rule, 409, Body("Concurrent modification error",
           Fields(<< [ field |-> "_v",
                       message |-> "The record being modified has been concurrently modified. Refresh and try again." ] >>)))
    [] rule = "ParallelSaveError" ->
         Responded(rule, 409, Body("Parallel save error",
           Strings(<< "The same document cannot be saved multiple times in parallel" >>)))
    [] rule = "Connectivity" ->
         Responded(rule, 503, Body("Database connection error",
           Strings(<< "Unable to connect to MongoDB database server. Please try again later." >>)))
    [] rule = "JsonWebTokenError" ->
         Responded(rule, 401, Body("Invalid token",
           Strings(<< "Provided token is invalid. Please log in again." >>)))
    [] rule = "TokenExpiredError" ->
         Responded(rule, 401, Body("Expired token",
           Strings(<< "Your session has expired. Please log in again to refresh." >>)))
    [] rule = "NotBeforeError" ->
         Responded(rule, 401, Body("Token not active",
           Strings(<< "The token has yet to be activated. Please try again later." >>)))
    [] rule = "ZodError" ->
         IF err.issues.k \in {"undefined", "null"} \/ ~IssuesJoinable(err.issues.v)
           THEN Threw(<< StatusCall(rule, 400) >>)
           ELSE Responded(rule, 400, Body("Data validation failed",
                  Fields(ZodItems(err.issues.v))))
    [] rule = "Declared" ->
         Responded(rule, err.statusCode[1], Body(err.message, DeclaredErrors(err)))
    [] OTHER ->
         Responded("CatchAll", 500, Body("Unexpected error.",
           Strings(<< "An unexpected error occurred. Please try again later." >>)))

\* Control reached the built-in chain (line 64) and selected `rule`.
ChainCall(rule) == [op |-> "chain", by |-> "builtin", rule |-> rule]

\* The built-in chain and the catch-all, lines 58-261.
BuiltIn(err) ==
  LET r == RunRule(MatchedRule(err), err)
  IN  [r EXCEPT !.calls = << ChainCall(MatchedRule(err)) >> \o r.calls]

(***************************************************************************)
(* Custom handlers.  The caller supplies any callables (err, req, res);    *)
(* the kinds below are the documented handler and three callables that     *)
(* use the response sink and the return value in the other possible ways.  *)
(***************************************************************************)

HandlerKinds == {"stripeMulter", "returnsTrue", "writesOnly", "respondsOk"}

\* An element of customHandlers, or a logger, that is not a function
\* (null, a string, an object).
NotCallable == "<not callable>"

HandlerName(i) == "handler" \o ToString(i)

\* A call of the handler of kind `kind`, at position i: the sink calls it
\* makes and the value it returns.
HandlerCall(kind, i, err) ==
  LET by == HandlerName(i)
      no == [calls |-> << >>, ret |-> Undefined]
  IN  CASE kind = "stripeMulter" ->
             IF err.type = "StripeCardError"
               THEN [ calls |-> << StatusCall(by, 402),
                                   JsonCall(by, Body("Payment failed", Strings(<< err.message >>))) >>,
                      ret |-> "res" ]
             ELSE IF err.name = "MulterError"
               THEN [ calls |-> << StatusCall(by, 400),
                                   JsonCall(by, Body("File upload error", Strings(<< err.message >>))) >>,
                      ret |-> "res" ]
             ELSE no
        [] kind = "returnsTrue" -> [calls |-> << >>, ret |-> "true"]
        [] kind = "writesOnly" ->
             [ calls |-> << StatusCall(by, 202),
                            JsonCall(by, Body("Recorded", Strings(<< >>))) >>,
               ret |-> Undefined ]
        [] kind = "respondsOk" ->
             [ calls |-> << StatusCall(by, 200),
                            JsonCall(by, [success |-> TRUE, message |-> "OK",
                                          errors |-> Strings(<< >>)]) >>,
               ret |-> "res" ]

\* InvokeCall handing next to the handler as a fourth argument.
InvokeCall_WithNext(kind, i) ==
  [ op |-> "handler", by |-> HandlerName(i), index |-> i, kind |-> kind,
    args |-> << "err", "req", "res", "next" >> ]

\* handler(err, req, res) at line 54: the arguments the handler is given.
InvokeCall(kind, i) ==
  [ op |-> "handler", by |-> HandlerName(i), index |-> i, kind |-> kind,
    args |-> << "err", "req", "res" >> ]

RECURSIVE RunHandlers_NoReturn(_, _, _)
\* RunHandlers without `if (result) return result`: the value of the last
\* handler that returned one is kept and the loop goes on.
RunHandlers_NoReturn(handlers, i, err) ==
  IF i > Len(handlers)
    THEN [calls |-> << >>, outcome |-> "continue", ret |-> Undefined]
    ELSE LET h == HandlerCall(handlers[i], i, err)
             made == << InvokeCall(handlers[i], i) >> \o h.calls
             rest == RunHandlers_NoReturn(handlers, i + 1, err)
         IN  IF TruthyStr(h.ret) /\ rest.outcome = "continue"
               THEN [calls |-> made \o rest.calls, outcome |-> "returned", ret |-> h.ret]
               ELSE [rest EXCEPT !.calls = made \o rest.calls]

RECURSIVE RunHandlers_Reversed(_, _, _)
\* RunHandlers iterating the array from its last element to its first.
RunHandlers_Reversed(handlers, i, err) ==
  IF i > Len(handlers)
    THEN [calls |-> << >>, outcome |-> "continue", ret |-> Undefined]
    ELSE LET j == Len(handlers) + 1 - i
             h == HandlerCall(handlers[j], j, err)
             made == << InvokeCall(handlers[j], j) >> \o h.calls
         IN  IF TruthyStr(h.ret)
               THEN [calls |-> made, outcome |-> "returned", ret |-> h.ret]
               ELSE LET rest == RunHandlers_Reversed(handlers, i + 1, err)
                    IN  [rest EXCEPT !.calls = made \o rest.calls]

RECURSIVE RunHandlers_OnlyRes(_, _, _)
\* RunHandlers ending the call only when the handler returned the response.
RunHandlers_OnlyRes(handlers, i, err) ==
  IF i > Len(handlers)
    THEN [calls |-> << >>, outcome |-> "continue", ret |-> Undefined]
    ELSE IF handlers[i] = NotCallable
      THEN [calls |-> << >>, outcome |-> "threw", ret |-> "TypeError"]
    ELSE LET h == HandlerCall(handlers[i], i, err)
             made == << InvokeCall(handlers[i], i) >> \o h.calls
         IN  IF h.ret = "res"
               THEN [calls |-> made, outcome |-> "returned", ret |-> h.ret]
               ELSE LET rest == RunHandlers_OnlyRes(handlers, i + 1, err)
                    IN  [rest EXCEPT !.calls = made \o rest.calls]

RECURSIVE RunHandlers(_, _, _)
\* for (const handler of customHandlers) { ... if (result) return result; }
RunHandlers(handlers, i, err) ==
  IF i > Len(handlers)
    THEN [calls |-> << >>, outcome |-> "continue", ret |-> Undefined]
    ELSE IF handlers[i] = NotCallable
      \* handler(err, req, res) on a value that is not a function
      THEN [calls |-> << >>, outcome |-> "threw", ret |-> "TypeError"]
    ELSE LET h == HandlerCall(handlers[i], i, err)
             made == << InvokeCall(handlers[i], i) >> \o h.calls
         IN  IF TruthyStr(h.ret)
               THEN [calls |-> made, outcome |-> "returned", ret |-> h.ret]
               ELSE LET rest == RunHandlers(handlers, i + 1, err)
                    IN  [rest EXCEPT !.calls = made \o rest.calls]

(***************************************************************************)
(* Logging, lines 42-50.                                                   *)
(***************************************************************************)

\* Summary with the stack added whenever the error carries one.
Summary_StackAlways(exposeStack, err) ==
  [ name |-> err.name, code |-> err.code, message |-> err.message,
    stack |-> IF TruthyStr(err.stack) THEN << err.stack >> ELSE << >> ]

\* The second argument of the logger call.
Summary(exposeStack, err) ==
  [ name |-> err.name, code |-> err.code, message |-> err.message,
    stack |-> IF exposeStack /\ TruthyStr(err.stack) THEN << err.stack >> ELSE << >> ]

LogCall(logger, exposeStack, err) ==
  [ op |-> "log", logger |-> logger, label |-> "The following error occurred:",
    details |-> Summary(exposeStack, err) ]

\* LogCalls without the `if (logErrors)` guard.
LogCalls_Unguarded(logErrors, logger, exposeStack, err) ==
  << LogCall(logger, exposeStack, err) >>

\* if (logErrors) { logger(...) }
LogCalls(logErrors, logger, exposeStack, err) ==
  IF logErrors THEN << LogCall(logger, exposeStack, err) >> ELSE << >>

\* Middleware with the logging block placed after the custom handler loop.
Middleware_LogAfterHandlers(logErrors, exposeStack, logger, customHandlers, err) ==
  LET log == LogCalls(logErrors, logger, exposeStack, err)
      h == RunHandlers(customHandlers, 1, err)
  IN  IF h.outcome = "returned"
        THEN h
        ELSE IF logErrors /\ logger = "throwingLogger"
          THEN [calls |-> h.calls \o log, outcome |-> "threw", ret |-> "LoggerError"]
          ELSE LET b == BuiltIn(err)
               IN  [b EXCEPT !.calls = h.calls \o log \o b.calls]

\* Middleware with the logger call wrapped in a try/catch that swallows its failure.
Middleware_ShieldedLogger(logErrors, exposeStack, logger, customHandlers, err) ==
  LET log == LogCalls(logErrors, logger, exposeStack, err)
      h == RunHandlers(customHandlers, 1, err)
  IN  IF h.outcome = "returned"
        THEN [h EXCEPT !.calls = log \o h.calls]
        ELSE LET b == BuiltIn(err)
             IN  [b EXCEPT !.calls = log \o h.calls \o b.calls]

\* The returned middleware (err, req, res, next), lines 40-262.
Middleware(logErrors, exposeStack, logger, customHandlers, err) ==
  LET log == LogCalls(logErrors, logger, exposeStack, err)
  IN  IF logErrors /\ logger = "throwingLogger"
        THEN [calls |-> log, outcome |-> "threw", ret |-> "LoggerError"]
      ELSE IF logErrors /\ logger \in {Null, NotCallable}
        \* logger(...) on null or another value that is not a function
        THEN [calls |-> << >>, outcome |-> "threw", ret |-> "TypeError"]
        ELSE LET h == RunHandlers(customHandlers, 1, err)
             IN  IF h.outcome \in {"returned", "threw"}
                   THEN [h EXCEPT !.calls = log \o h.calls]
                   ELSE LET b == BuiltIn(err)
                        IN  [b EXCEPT !.calls = log \o h.calls \o b.calls]

(***************************************************************************)
(* Error values.                                                           *)
(***************************************************************************)

Classes == {"Object", "Error", "SyntaxError", "URIError"}

Names ==
  NamedRules \cup { "MongooseServerSelectionError", "MongoNetworkError",
                    "MulterError", "UnknownError", Null }

EmailRequired == [path |-> "email", message |-> "Email is required"]

NameTooShort == [path |-> "name", message |-> "Name must be at least 2 characters"]

Issue(path, message) == [path |-> path, message |-> message]

\* Every value obtained from e by setting one attribute.
SetOne(e) ==
  {[e EXCEPT !.name = v] : v \in Names}
  \cup {[e EXCEPT !.message = v] : v \in {"Access denied"}}
  \cup {[e EXCEPT !.code = v] : v \in {<<11000>>, <<11001>>}}
  \cup {[e EXCEPT !.type = v] : v \in {"entity.too.large", "StripeCardError"}}
  \cup {[e EXCEPT !.status = v] : v \in {<<400>>, <<500>>}}
  \cup {[e EXCEPT !.hasBody = TRUE]}
  \cup {[e EXCEPT !.statusCode = v] : v \in {<<0>>, <<200>>, <<403>>}}
  \cup {[e EXCEPT !.path = v] : v \in {"_id"}}
  \cup {[e EXCEPT !.value = v] : v \in {"invalid-id"}}
  \cup {[e EXCEPT !.keyPattern = v] :
          v \in {NullV, Keys(<< "email" >>), Keys(<< "email", "username" >>)}}
  \cup {[e EXCEPT !.errors = v] :
          v \in { NullV, Strings(<< >>), Strings(<< "Field A is invalid" >>),
                  Mapping(<< EmailRequired, NameTooShort >>) }}
  \cup {[e EXCEPT !.issues = v] :
          v \in { Array(<< >>),
                  Array(<< Issue(Array(<< >>), "Invalid input") >>),
                  Array(<< Issue(Array(<< "email" >>), "Invalid email format"),
                           Issue(Array(<< "user", "profile", "email" >>), "Invalid email") >>),
                  Array(<< Issue(UndefinedV, "Invalid input") >>) }}
  \cup {[e EXCEPT !.stack = v] : v \in {"", "Error: at handler.js:1:1"}}
  \cup {[e EXCEPT !.unknownProperty = "value"]}

RECURSIVE Shapes(_)
\* The objects with at most n attributes set.
Shapes(n) ==
  IF n = 0 THEN {EmptyObject}
  ELSE LET S == Shapes(n - 1) IN S \cup UNION {SetOne(e) : e \in S}

\* Error values of every class with at most MaxAttrs attributes set.
ErrorValues == {[e EXCEPT !.cls = c] : e \in Shapes(MaxAttrs), c \in Classes}

\* new Error(message)
NewError(cls, message) ==
  [EmptyObject EXCEPT !.cls = cls, !.message = message,
                      !.stack = "Error: at handler.js:1:1"]

\* The error values the test suite and the documentation pass to the middleware.
TestErrors ==
  { EmptyObject,
    NewError("Error", "Test error"),
    [NewError("SyntaxError", "Unexpected token") EXCEPT !.status = <<400>>, !.hasBody = TRUE],
    [EmptyObject EXCEPT !.name = "ValidationError",
                        !.errors = Mapping(<< EmailRequired, NameTooShort >>)],
    [EmptyObject EXCEPT !.name = "ValidationError"],
    [EmptyObject EXCEPT !.code = <<11000>>, !.name = "ValidationError",
                        !.keyPattern = Keys(<< "email" >>),
                        !.errors = Mapping(<< EmailRequired >>)],
    [EmptyObject EXCEPT !.name = "JsonWebTokenError", !.message = "jwt malformed",
                        !.stack = "Error: at handler.js:1:1"],
    [EmptyObject EXCEPT !.name = "ZodError",
                        !.issues = Array(<< Issue(Array(<< "user", "profile", "email" >>),
                                                  "Invalid email") >>)],
    [EmptyObject EXCEPT !.statusCode = <<403>>, !.message = "Access denied"],
    [EmptyObject EXCEPT !.statusCode = <<200>>, !.message = "OK"],
    [EmptyObject EXCEPT !.type = "StripeCardError",
                        !.message = "Your card's expiration year is invalid."],
    [EmptyObject EXCEPT !.name = "MulterError", !.message = "File too large"],
    [EmptyObject EXCEPT !.type = "StripeCardError", !.name = "ValidationError",
                        !.message = "Card declined",
                        !.errors = Mapping(<< EmailRequired >>)] }

(***************************************************************************)
(* Configuration, lines 27-37.                                             *)
(***************************************************************************)

\* process.env.NODE_ENV
Envs == {"development", "test", "production", "staging", Undefined}

RECURSIVE SeqsUpTo(_, _)
\* The sequences over S of length at most n.
SeqsUpTo(S, n) ==
  IF n = 0 THEN {<< >>}
  ELSE LET R == SeqsUpTo(S, n - 1)
       IN  R \cup {Append(r, x) : r \in {q \in R : Len(q) = n - 1}, x \in S}

Omitted == [k |-> "omitted"]

\* The options objects passed to createErrorHandler.
OptionValues ==
  [ logErrors : {"omitted", "true", "false"},
    exposeStack : {"omitted", "true", "false"},
    logger : {"omitted", "mockLogger", "throwingLogger"},
    customHandlers : {Omitted} \cup {Array(h) : h \in SeqsUpTo(HandlerKinds, MaxHandlers)} ]

NoOptions ==
  [logErrors |-> "omitted", exposeStack |-> "omitted", logger |-> "omitted",
   customHandlers |-> Omitted]

\* NotProduction as "anything but production".
NotProduction_AllButProduction(nodeEnv) == nodeEnv # "production"

\* const notProduction = NODE_ENV === "development" || NODE_ENV === "test"
NotProduction(nodeEnv) == nodeEnv = "development" \/ nodeEnv = "test"

\* Resolve binding console.error whatever logger the options give.
Resolve_ConsoleOnly(opts, nodeEnv) ==
  [ logErrors |-> IF opts.logErrors = "omitted" THEN NotProduction(nodeEnv)
                  ELSE opts.logErrors = "true",
    exposeStack |-> IF opts.exposeStack = "omitted" THEN FALSE
                    ELSE opts.exposeStack = "true",
    logger |-> "console.error",
    customHandlers |-> IF opts.customHandlers = Omitted THEN << >>
                       ELSE opts.customHandlers.v ]

\* The destructuring defaults of lines 31-36.
Resolve(opts, nodeEnv) ==
  [ logErrors |-> IF opts.logErrors = "omitted" THEN NotProduction(nodeEnv)
                  ELSE opts.logErrors = "true",
    exposeStack |-> IF opts.exposeStack = "omitted" THEN FALSE
                    ELSE opts.exposeStack = "true",
    logger |-> IF opts.logger = "omitted" THEN "console.error" ELSE opts.logger,
    customHandlers |-> IF opts.customHandlers = Omitted THEN << >>
                       ELSE opts.customHandlers.v ]

(***************************************************************************)
(* State.                                                                  *)
(***************************************************************************)

VARIABLES
  env,             \* process.env.NODE_ENV
  options,         \* the options object createErrorHandler was called with
  phase,           \* "module": no middleware yet; "failed": createErrorHandler
                   \* threw; "ready"; "dispatched"
  logErrors,       \* the closed-over configuration
  exposeStack,
  logger,
  customHandlers,
  err,             \* the error value of the last middleware call
  result,          \* its calls, in order, and how it ended
  caller           \* what the calling program keeps: the number of middleware
                   \* calls made, the call before the last, and whether
                   \* options.customHandlers still is the array it passed

vars ==
  << env, options, phase, logErrors, exposeStack, logger, customHandlers, err, result,
     caller >>

config == << logErrors, exposeStack, logger, customHandlers >>

NoResult == [calls |-> << >>, outcome |-> "none", ret |-> Undefined]

NoCall == [err |-> EmptyObject, result |-> NoResult]

FreshCaller == [served |-> 0, prior |-> NoCall, shared |-> TRUE]

Init ==
  /\ env \in Envs
  /\ options = NoOptions
  /\ phase = "module"
  /\ logErrors = FALSE
  /\ exposeStack = FALSE
  /\ logger = "console.error"
  /\ customHandlers = << >>
  /\ err = EmptyObject
  /\ result = NoResult
  /\ caller = FreshCaller

\* createErrorHandler(opts)
CreateErrorHandler(opts) ==
  /\ phase = "module"
  /\ options' = opts
  /\ IF opts = NullV
       \* the default {} replaces undefined only: destructuring null throws
       THEN phase' = "failed" /\ UNCHANGED config
       ELSE /\ logErrors' = Resolve(opts, env).logErrors
            /\ exposeStack' = Resolve(opts, env).exposeStack
            /\ logger' = Resolve(opts, env).logger
            /\ customHandlers' = Resolve(opts, env).customHandlers
            /\ phase' = "ready"
  /\ UNCHANGED << env, err, result >>

\* process.env.NODE_ENV = v
SetEnv(v) ==
  /\ env # v
  /\ env' = v
  /\ UNCHANGED << options, phase, config, err, result >>

\* Dispatch reading NODE_ENV and the options again at each call.
Dispatch_ResolvedAtCall(e) ==
  /\ phase \in {"ready", "dispatched"}
  /\ err' = e
  /\ result' = Middleware(Resolve(options, env).logErrors, exposeStack, logger,
                          customHandlers, e)
  /\ phase' = "dispatched"
  /\ UNCHANGED << env, options, config >>

\* Dispatch by a middleware that keeps the first error it was called with
\* and classifies that one at every later call.
Dispatch_FirstErrorKept(e) ==
  /\ phase \in {"ready", "dispatched"}
  /\ err' = e
  /\ result' = Middleware(logErrors, exposeStack, logger, customHandlers,
                          IF phase = "dispatched" THEN err ELSE e)
  /\ phase' = "dispatched"
  /\ UNCHANGED << env, options, config >>

\* Dispatch by a middleware that deletes err.stack once it has answered.
Dispatch_StackDeleted(e) ==
  /\ phase \in {"ready", "dispatched"}
  /\ err' = [e EXCEPT !.stack = Undefined]
  /\ result' = Middleware(logErrors, exposeStack, logger, customHandlers, e)
  /\ phase' = "dispatched"
  /\ UNCHANGED << env, options, config >>

\* errorHandler(e, req, res, next)
Dispatch(e) ==
  /\ phase \in {"ready", "dispatched"}
  /\ err' = e
  /\ result' = Middleware(logErrors, exposeStack, logger, customHandlers, e)
  /\ phase' = "dispatched"
  /\ UNCHANGED << env, options, config >>

Create == \E opts \in OptionValues : CreateErrorHandler(opts) /\ UNCHANGED caller

ChangeEnv == \E v \in Envs : SetEnv(v) /\ UNCHANGED caller

DispatchTest == \E e \in TestErrors : Dispatch(e) /\ UNCHANGED caller

Next == Create \/ ChangeEnv \/ DispatchTest

Spec == Init /\ [][Next]_vars

(***************************************************************************)
(* The middleware without custom handlers, called once on each error       *)
(* value of ErrorValues.                                                   *)
(***************************************************************************)

ShapeOptions ==
  [ logErrors : {"true", "false"}, exposeStack : {"omitted", "true", "false"},
    logger : {"mockLogger"}, customHandlers : {Omitted} ]

InitShapes ==
  /\ env = "production"
  /\ options \in ShapeOptions
  /\ phase = "ready"
  /\ logErrors = Resolve(options, env).logErrors
  /\ exposeStack = Resolve(options, env).exposeStack
  /\ logger = Resolve(options, env).logger
  /\ customHandlers = Resolve(options, env).customHandlers
  /\ err \in ErrorValues \cup TestErrors
  /\ result = NoResult
  /\ caller = FreshCaller

DispatchShape == phase = "ready" /\ Dispatch(err) /\ UNCHANGED caller

NextShapes == DispatchShape

SpecShapes == InitShapes /\ [][NextShapes]_vars

(***************************************************************************)
(* One middleware called several times, while the calling program changes  *)
(* the array it passed as customHandlers and the options object.           *)
(***************************************************************************)

\* Most middleware calls the calling program makes.
MaxServed == 2

LaterKinds == {"stripeMulter", "returnsTrue"}

LaterErrors ==
  { EmptyObject,
    [EmptyObject EXCEPT !.statusCode = <<403>>, !.message = "Access denied"],
    [EmptyObject EXCEPT !.type = "StripeCardError",
                        !.message = "Your card's expiration year is invalid."] }

LaterOptions ==
  [ logErrors : {"true", "false"}, exposeStack : {"false"}, logger : {"mockLogger"},
    customHandlers : {Array(h) : h \in SeqsUpTo(LaterKinds, 1)} ]

InitLater ==
  /\ env = "production"
  /\ options \in LaterOptions
  /\ phase = "ready"
  /\ logErrors = Resolve(options, env).logErrors
  /\ exposeStack = Resolve(options, env).exposeStack
  /\ logger = Resolve(options, env).logger
  /\ customHandlers = Resolve(options, env).customHandlers
  /\ err = EmptyObject
  /\ result = NoResult
  /\ caller = FreshCaller

\* The array as options.customHandlers shows it: the array the middleware
\* iterates while the option was not reassigned.
Seen(opts, array) ==
  IF caller.shared THEN [opts EXCEPT !.customHandlers = Array(array)] ELSE opts

\* Push on a caller's array of which the middleware holds a copy made by
\* createErrorHandler.
Push_OnCopiedArray(kind) ==
  /\ phase # "module"
  /\ caller.shared
  /\ Len(options.customHandlers.v) < MaxHandlers
  /\ options' = [options EXCEPT !.customHandlers = Array(Append(options.customHandlers.v, kind))]
  /\ UNCHANGED << env, phase, config, err, result, caller >>

\* handlers.push(handler), on the array passed as customHandlers
Push(kind) ==
  /\ phase # "module"
  /\ Len(customHandlers) < MaxHandlers
  /\ customHandlers' = Append(customHandlers, kind)
  /\ options' = Seen(options, customHandlers')
  /\ UNCHANGED << env, phase, logErrors, exposeStack, logger, err, result, caller >>

\* handlers.splice(i - 1, 1), on the array passed as customHandlers
Remove(i) ==
  /\ phase # "module"
  /\ i \in 1..Len(customHandlers)
  /\ customHandlers' = SubSeq(customHandlers, 1, i - 1)
                         \o SubSeq(customHandlers, i + 1, Len(customHandlers))
  /\ options' = Seen(options, customHandlers')
  /\ UNCHANGED << env, phase, logErrors, exposeStack, logger, err, result, caller >>

\* options.logErrors = v, and likewise for exposeStack and logger
Reassign(field, v) ==
  /\ phase # "module"
  /\ options[field] # v
  /\ options' = [options EXCEPT ![field] = v]
  /\ UNCHANGED << env, phase, config, err, result, caller >>

\* options.customHandlers = another array
ReassignHandlers(array) ==
  /\ phase # "module"
  /\ caller.shared
  /\ options' = [options EXCEPT !.customHandlers = Array(array)]
  /\ caller' = [caller EXCEPT !.shared = FALSE]
  /\ UNCHANGED << env, phase, config, err, result >>

\* One more call of the same middleware.
DispatchAgain(e) ==
  /\ caller.served < MaxServed
  /\ Dispatch(e)
  /\ caller' = [caller EXCEPT !.served = @ + 1,
                               !.prior = [err |-> err, result |-> result]]

PushLater == \E kind \in LaterKinds : Push(kind)

RemoveLater == \E i \in 1..MaxHandlers : Remove(i)

ReassignLater ==
  \/ \E v \in {"true", "false"} : Reassign("logErrors", v)
  \/ Reassign("exposeStack", "true")
  \/ Reassign("logger", "throwingLogger")

ReassignHandlersLater == ReassignHandlers(<< "returnsTrue" >>)

DispatchLater == \E e \in LaterErrors : DispatchAgain(e)

NextLater ==
  PushLater \/ RemoveLater \/ ReassignLater \/ ReassignHandlersLater \/ DispatchLater

SpecLater == InitLater /\ [][NextLater]_vars

(***************************************************************************)
(* createErrorHandler called with options that are null or hold values     *)
(* that are null or not functions, and the middleware it returns.          *)
(***************************************************************************)

AnyOptions ==
  [ logErrors : {"omitted", "true", "false", Null},
    exposeStack : {"omitted", Null},
    logger : {"omitted", "mockLogger", Null, NotCallable},
    customHandlers : { Omitted, Array(<< >>), Array(<< NotCallable >>),
                       Array(<< "stripeMulter", NotCallable >>) } ]
  \cup {NullV}

InitOptions ==
  /\ env \in {"development", "production"}
  /\ options = NoOptions
  /\ phase = "module"
  /\ logErrors = FALSE
  /\ exposeStack = FALSE
  /\ logger = "console.error"
  /\ customHandlers = << >>
  /\ err = EmptyObject
  /\ result = NoResult
  /\ caller = FreshCaller

CreateAny == \E opts \in AnyOptions : CreateErrorHandler(opts) /\ UNCHANGED caller

DispatchAny == \E e \in LaterErrors : Dispatch(e) /\ UNCHANGED caller

NextOptions == CreateAny \/ DispatchAny

SpecOptions == InitOptions /\ [][NextOptions]_vars

(***************************************************************************)
(* Properties.                                                             *)
(***************************************************************************)

Dispatched == phase = "dispatched"

Positions == 1..Len(result.calls)

CallsOf(op) == SelectSeq(result.calls, LAMBDA c : c.op = op)

\* The calls on the response sink, in order.
SinkCalls(calls) == SelectSeq(calls, LAMBDA c : c.op \in {"status", "json"})

\* C1: for every error value, one call of the middleware returns without
\* throwing and emits exactly one response through res.json.
C1_Totality ==
  Dispatched => result.outcome = "returned" /\ Len(CallsOf("json")) = 1

\* C2: once a rule, custom or built-in, has emitted a body through res.json,
\* no further rule runs and res.json is not called a second time.
C2_ExactlyOnce ==
  Dispatched =>
    \A p \in Positions, q \in Positions :
      (result.calls[p].op = "json" /\ q > p) =>
        result.calls[q].op \notin {"handler", "chain", "status", "json"}

\* C3: every status the middleware sets on the response is a number >= 400.
C3_StatusAtLeast400 ==
  Dispatched => \A p \in Positions :
    result.calls[p].op = "status" => result.calls[p].code >= 400

\* C4 as stated: every body emitted during a middleware call, by a custom
\* handler, a built-in rule or the catch-all, has success false.
C4_EveryBodySuccessFalse ==
  Dispatched => \A p \in Positions :
    result.calls[p].op = "json" => result.calls[p].body.success = FALSE

\* The call c invokes a custom handler or is made by one.
IsHandlerCall(c) ==
  \/ c.op = "handler"
  \/ /\ c.op \in {"status", "json"}
     /\ c.by \in {HandlerName(i) : i \in 1..Len(customHandlers)}

\* C4 amended: every body emitted by a built-in rule or by the catch-all has
\* success false.
C4_BuiltInBodySuccessFalse ==
  Dispatched => \A p \in Positions :
    (result.calls[p].op = "json" /\ ~IsHandlerCall(result.calls[p])) =>
      result.calls[p].body.success = FALSE

\* A built-in rule answered after a custom handler had written a body too.
C4_Witness ==
  /\ Dispatched
  /\ \E p \in Positions, q \in Positions :
       /\ p < q
       /\ result.calls[p].op = "json" /\ IsHandlerCall(result.calls[p])
       /\ result.calls[q].op = "json" /\ result.calls[q].by = "ValidationError"
       /\ result.calls[q].body.success = FALSE

\* C5: when an invoked custom handler returns a truthy value, no later custom
\* handler is invoked, the built-in chain is not entered, and the middleware
\* returns that handler's value.
C5_ShortCircuit ==
  Dispatched => \A p \in Positions :
    LET c == result.calls[p] IN
      (c.op = "handler" /\ TruthyStr(HandlerCall(c.kind, c.index, err).ret)) =>
        /\ \A q \in Positions :
             q > p => /\ result.calls[q].op \in {"status", "json"}
                      /\ result.calls[q].by = c.by
        /\ result.outcome = "returned"
        /\ result.ret = HandlerCall(c.kind, c.index, err).ret

\* The first of two handlers returned true without writing; the second, which
\* would have answered, was not invoked.
C5_Witness ==
  /\ Dispatched
  /\ customHandlers = << "returnsTrue", "respondsOk" >>
  /\ CallsOf("handler") = << InvokeCall("returnsTrue", 1) >>
  /\ result.ret = "true"
  /\ MatchedRule(err) = "ValidationError"

\* The calls not made by a custom handler or for invoking one.
OwnCalls(calls) == SelectSeq(calls, LAMBDA c : ~IsHandlerCall(c))

\* No custom handler of the array returns a truthy value for the error.
NoHandlerAnswers ==
  \A n \in 1..Len(customHandlers) :
    ~TruthyStr(HandlerCall(customHandlers[n], n, err).ret)

RuleOrder ==
  << "MalformedJson", "TooLarge", "URIError", "ValidationError", "DuplicateKey",
     "CastError", "DocumentNotFoundError", "StrictModeError", "VersionError",
     "ParallelSaveError", "Connectivity", "JsonWebTokenError", "TokenExpiredError",
     "NotBeforeError", "ZodError", "Declared", "CatchAll" >>

\* The error value e passes the test of the rule.
Satisfies(rule, e) ==
  CASE rule = "MalformedJson" -> e.cls = "SyntaxError" /\ e.status = <<400>> /\ e.hasBody
    [] rule = "TooLarge" -> e.type = "entity.too.large"
    [] rule = "URIError" -> e.cls = "URIError"
    [] rule = "DuplicateKey" -> e.code = <<11000>>
    [] rule = "Connectivity" ->
         e.name \in {"MongooseServerSelectionError", "MongoNetworkError"}
    [] rule = "Declared" -> e.statusCode \notin {<< >>, <<0>>}
    [] rule = "CatchAll" -> TRUE
    [] OTHER -> e.name = rule

\* The rules whose test e passes, the catch-all aside.
SatisfiedRules(e) ==
  {i \in 1..(Len(RuleOrder) - 1) : Satisfies(RuleOrder[i], e)}

C8_NoLogWhenDisabled ==
  (Dispatched /\ ~logErrors) => CallsOf("log") = << >>

\* Logging off by option, with a logger supplied, exposeStack true, custom
\* handlers present and NODE_ENV "development".
C8_Witness ==
  /\ Dispatched /\ ~logErrors
  /\ options.logger = "mockLogger" /\ exposeStack
  /\ customHandlers # << >> /\ env = "development"
  /\ err.stack # Undefined
  /\ SinkCalls(result.calls) # << >>

\* C9: with logErrors true, a middleware call invokes the logger exactly once,
\* before any custom handler or built-in rule, with the fixed label and the
\* name, code and message of the error.
C9_LogOnceFirst ==
  (Dispatched /\ logErrors) =>
    /\ Len(CallsOf("log")) = 1
    /\ Len(result.calls) >= 1
    /\ result.calls[1].op = "log"
    /\ result.calls[1].label = "The following error occurred:"
    /\ result.calls[1].details.name = err.name
    /\ result.calls[1].details.code = err.code
    /\ result.calls[1].details.message = err.message

\* The error was logged, then the second custom handler answered it.
C9_Witness ==
  /\ Dispatched /\ logErrors
  /\ Len(CallsOf("handler")) = 2
  /\ result.calls[Len(result.calls)].op = "json"
  /\ result.calls[Len(result.calls)].by = HandlerName(2)
  /\ result.calls[1].details.name = "MulterError"

\* C10: the logged summary has a stack key exactly when exposeStack is true
\* and the error carries a non-empty stack, and the key then holds that
\* stack; with exposeStack false or omitted it has none.
C10_StackKey ==
  (Dispatched /\ logErrors) =>
    LET details == CallsOf("log")[1].details IN
      /\ details.stack # << >> <=> (exposeStack /\ err.stack \notin {Undefined, Null, ""})
      /\ details.stack # << >> => details.stack = << err.stack >>
      /\ options.exposeStack \in {"omitted", "false"} => details.stack = << >>

\* A stack was logged with exposeStack true.
C10_Witness ==
  /\ Dispatched /\ logErrors /\ options.exposeStack = "true"
  /\ CallsOf("log")[1].details.stack = << "Error: at handler.js:1:1" >>

\* The strings a response body holds.
BodyStrings(body) ==
  {body.message} \cup
    CASE body.errors.k = "strings" -> {body.errors.v[i] : i \in 1..Len(body.errors.v)}
      [] body.errors.k = "fields" ->
           UNION {{body.errors.v[i].field, body.errors.v[i].message} :
                    i \in 1..Len(body.errors.v)}
      [] body.errors.k = "object" ->
           UNION {{body.errors.v[i].path, body.errors.v[i].message} :
                    i \in 1..Len(body.errors.v)}
      [] OTHER -> {}

\* Values of err.stack.
StackValues == {Undefined, "", "Error: at handler.js:1:1", "Error: at other.js:2:2"}

\* The sink calls of a middleware call with the given logErrors, exposeStack
\* and err.stack, everything else as in the last call.
SinkCallsWith(le, es, stack) ==
  SinkCalls(Middleware(le, es, logger, customHandlers, [err EXCEPT !.stack = stack]).calls)

\* No emitted body holds the stack of the error.
NoStackInBody ==
  \A p \in Positions :
    (result.calls[p].op = "json" /\ TruthyStr(err.stack)) =>
      err.stack \notin BodyStrings(result.calls[p].body)

LoggedNext == \E p \in 1..Len(result'.calls) : result'.calls[p].op = "log"

\* C12: when createErrorHandler is called without logErrors, the middleware
\* it returns logs exactly when NODE_ENV was "development" or "test" at that
\* call, and does not for "production", an unset or any other value.
C12_DefaultLogErrors ==
  [][ /\ (phase = "module" /\ phase' = "ready" /\ options'.logErrors = "omitted") =>
           (logErrors' <=> env \in {"development", "test"})
      /\ (phase # "module" /\ options.logErrors = "omitted") => logErrors' = logErrors
      /\ (phase' = "dispatched" /\ options'.logErrors = "omitted") =>
           (LoggedNext <=> logErrors') ]_vars

\* A middleware created without logErrors under NODE_ENV = "test" logged, and
\* one created under an unset NODE_ENV would not have.
C12_Witness ==
  /\ Dispatched /\ options.logErrors = "omitted" /\ env = "test"
  /\ logErrors /\ Len(CallsOf("log")) = 1
  /\ ~Resolve(options, Undefined).logErrors
  /\ ~Resolve(options, "staging").logErrors

\* C13: the configuration is resolved once, by createErrorHandler: no later
\* step changes it, a change of NODE_ENV changes nothing else, and every
\* middleware call logs exactly when the logErrors resolved then is true.
C13_ResolvedOnce ==
  [][ /\ phase # "module" => config' = config /\ options' = options
      /\ env' # env => UNCHANGED << options, phase, config, err, result >>
      /\ phase' = "dispatched" => (LoggedNext <=> logErrors') ]_vars

\* A middleware created without logErrors logged although NODE_ENV, changed
\* after its creation, is "production" at the call.
C13_Witness ==
  /\ Dispatched /\ options.logErrors = "omitted" /\ env = "production"
  /\ logErrors /\ Len(CallsOf("log")) = 1
  /\ Resolve(options, env).logErrors # logErrors

\* C14: when logErrors is true and the logger throws, the middleware call
\* raises the logger's failure, having called the logger and nothing else: no
\* custom handler, no built-in rule, and neither res.status nor res.json.
C14_LoggerFailureNotShielded ==
  (Dispatched /\ logErrors /\ logger = "throwingLogger") =>
    /\ result.outcome = "threw"
    /\ result.ret = "LoggerError"
    /\ Len(result.calls) = 1
    /\ result.calls[1].op = "log"
    /\ \A p \in Positions : result.calls[p].op \notin {"handler", "chain", "status", "json"}

\* The logger threw on an error that a custom handler of the array, or else
\* a built-in rule, answers when logging is off.
C14_Witness ==
  /\ Dispatched /\ logErrors /\ logger = "throwingLogger"
  /\ customHandlers # << >>
  /\ result.outcome = "threw"
  /\ SinkCallsWith(FALSE, exposeStack, err.stack) # << >>

\* C15: the middleware never calls next, and calls every custom handler with
\* exactly (err, req, res).
C15_NextNeverUsed ==
  Dispatched =>
    \A p \in Positions :
      /\ result.calls[p].op # "next"
      /\ result.calls[p].op = "handler" =>
           /\ result.calls[p].args = << "err", "req", "res" >>
           /\ \A a \in 1..Len(result.calls[p].args) : result.calls[p].args[a] # "next"

\* Two custom handlers were called and passed, and the catch-all answered.
C15_Witness ==
  /\ Dispatched
  /\ Len(CallsOf("handler")) = 2
  /\ result.outcome = "returned"
  /\ Len(CallsOf("json")) = 1
  /\ CallsOf("json")[1].by = "CatchAll"

\* The first rule of the fixed order whose test e passes.
FirstSatisfied(e) ==
  RuleOrder[CHOOSE i \in 1..Len(RuleOrder) :
              /\ Satisfies(RuleOrder[i], e)
              /\ \A j \in 1..(i - 1) : ~Satisfies(RuleOrder[j], e)]

\* The attribute is an array or object with at least one element.
NonEmpty(x) == x.k \in {"strings", "fields", "object", "array"} /\ x.v # << >>

\* C16: an error with a truthy statusCode that no earlier rule matches is
\* answered with that status, its message, and as errors its errors attribute
\* when that is present and non-empty, otherwise the array of its message.
C16_DeclaredError ==
  (Dispatched /\ FirstSatisfied(err) = "Declared") =>
    LET sink == SinkCalls(result.calls) IN
      /\ result.outcome = "returned"
      /\ Len(sink) = 2
      /\ sink[1].op = "status" /\ sink[1].code = err.statusCode[1]
      /\ sink[2].op = "json"
      /\ sink[2].body.success = FALSE
      /\ sink[2].body.message = err.message
      /\ sink[2].body.errors =
           IF NonEmpty(err.errors) THEN err.errors ELSE Strings(<< err.message >>)

\* The middleware returned after res.status(code) and one res.json whose body
\* has success false, the message and the errors.
Answered(code, message, errors) ==
  LET sink == SinkCalls(result.calls) IN
    /\ result.outcome = "returned"
    /\ Len(sink) = 2
    /\ sink[1].op = "status" /\ sink[1].code = code
    /\ sink[2].op = "json"
    /\ sink[2].body.success = FALSE
    /\ sink[2].body.message = message
    /\ sink[2].body.errors = errors

\* The keys of keyPattern, none when the error has no keyPattern object.
PatternKeys(e) == IF e.keyPattern.k = "object" THEN e.keyPattern.keys ELSE << >>

\* One {field, message} entry per key, in order.
DuplicateEntries(keys) ==
  [i \in 1..Len(keys) |->
     [field |-> keys[i],
      message |-> "Record with field '" \o keys[i] \o "' already exists"]]

\* C17: an error with code 11000 that no earlier rule matches is answered
\* with 409 "Duplicate key violation" and one entry per key of keyPattern, in
\* insertion order, each {field: key, message: "Record with field '<key>'
\* already exists"}.
C17_DuplicateKey ==
  (Dispatched /\ FirstSatisfied(err) = "DuplicateKey") =>
    Answered(409, "Duplicate key violation", Fields(DuplicateEntries(PatternKeys(err))))

\* The statement of C17 for the errors that carry a keyPattern object.
DuplicateKeyWithPattern ==
  (Dispatched /\ FirstSatisfied(err) = "DuplicateKey" /\ err.keyPattern.k = "object") =>
    Answered(409, "Duplicate key violation", Fields(DuplicateEntries(PatternKeys(err))))

\* The values of the errors attribute, none when the error has none.
ErrorsValues(e) == IF e.errors.k \in {"object", "strings"} THEN e.errors.v ELSE << >>

\* One {field: value.path, message: value.message} entry per value, in order;
\* a value that is a string has neither attribute.
ValidationEntries(e) ==
  [i \in 1..Len(ErrorsValues(e)) |->
     IF e.errors.k = "object"
       THEN [field |-> ErrorsValues(e)[i].path, message |-> ErrorsValues(e)[i].message]
       ELSE [field |-> Undefined, message |-> Undefined]]

\* C18: an error named "ValidationError" that no earlier rule matches is
\* answered with 400 "Schema validation failed" and one entry per value of
\* its errors mapping, in the mapping's order, each {field: value.path,
\* message: value.message}.
C18_SchemaValidation ==
  (Dispatched /\ FirstSatisfied(err) = "ValidationError") =>
    Answered(400, "Schema validation failed", Fields(ValidationEntries(err)))

\* The statement of C18 for the errors that carry an errors object or array.
SchemaValidationWithErrors ==
  (Dispatched /\ FirstSatisfied(err) = "ValidationError"
     /\ err.errors.k \in {"object", "strings"}) =>
    Answered(400, "Schema validation failed", Fields(ValidationEntries(err)))

\* The path segments joined with ".", for paths of at most three segments.
Dotted(path) ==
  CASE Len(path) = 0 -> ""
    [] Len(path) = 1 -> path[1]
    [] Len(path) = 2 -> path[1] \o "." \o path[2]
    [] OTHER -> path[1] \o "." \o path[2] \o "." \o path[3]

\* The issues of the error, none when it has no issues array.
IssuesOf(e) == IF e.issues.k = "array" THEN e.issues.v ELSE << >>

\* The segments of the issue's path, none when it has no path array.
SegmentsOf(issue) == IF issue.path.k = "array" THEN issue.path.v ELSE << >>

\* One {field, message} entry per issue, in order.
ZodEntries(e) ==
  [i \in 1..Len(IssuesOf(e)) |->
     [field |-> Dotted(SegmentsOf(IssuesOf(e)[i])), message |-> IssuesOf(e)[i].message]]

\* C19: an error named "ZodError" that no earlier rule matches is answered
\* with 400 "Data validation failed" and one entry per issue, in array order,
\* whose field is the issue's path segments joined with "." (the empty string
\* for an empty path, the segment itself for a path of one) and whose message
\* is the issue's message.
C19_ZodIssues ==
  (Dispatched /\ FirstSatisfied(err) = "ZodError") =>
    Answered(400, "Data validation failed", Fields(ZodEntries(err)))

\* The statement of C19 for the errors whose issues all carry a path array.
ZodIssuesWithPaths ==
  (Dispatched /\ FirstSatisfied(err) = "ZodError" /\ err.issues.k = "array"
     /\ \A i \in 1..Len(err.issues.v) : err.issues.v[i].path.k = "array") =>
    Answered(400, "Data validation failed", Fields(ZodEntries(err)))

\* The response of the malformed-JSON rule was emitted.
MalformedJsonAnswer ==
  \E p \in Positions :
    /\ result.calls[p].op = "json"
    /\ result.calls[p].body.message = "Invalid JSON payload in request"

\* C20: the malformed-JSON response (400, "Invalid JSON payload in request")
\* is emitted only for a SyntaxError whose status is 400 and that has a body
\* attribute; a SyntaxError lacking the 400 status or the body attribute that
\* passes the test of no other rule gets the 500 catch-all response.
C20_MalformedJsonNeedsAll ==
  Dispatched =>
    /\ MalformedJsonAnswer =>
         /\ err.cls = "SyntaxError" /\ err.status = <<400>> /\ err.hasBody
         /\ Answered(400, "Invalid JSON payload in request",
              Strings(<< "The request body JSON is invalid and could not be parsed" >>))
    /\ (err.cls = "SyntaxError" /\ ~(err.status = <<400>> /\ err.hasBody)
          /\ SatisfiedRules(err) = {}) =>
         Answered(500, "Unexpected error.",
           Strings(<< "An unexpected error occurred. Please try again later." >>))

\* A SyntaxError with status 400 and no body attribute got the catch-all response.
C20_Witness ==
  /\ Dispatched /\ err.cls = "SyntaxError" /\ err.status = <<400>> /\ ~err.hasBody
  /\ Len(CallsOf("status")) = 1 /\ CallsOf("status")[1].code = 500
  /\ CallsOf("json")[1].by = "CatchAll"

\* The sink calls the middleware made itself are those of the catch-all:
\* res.status(500), then res.json with the fixed body.
CatchAllAnswer ==
  LET own == SinkCalls(OwnCalls(result.calls)) IN
    /\ Len(own) = 2
    /\ own[1].op = "status" /\ own[1].code = 500
    /\ own[2].op = "json"
    /\ own[2].body = [ success |-> FALSE, message |-> "Unexpected error.",
                       errors |-> Strings(<< "An unexpected error occurred. Please try again later." >>) ]

\* An error with a name that no rule tests for.
UnknownName(e) == [EmptyObject EXCEPT !.name = e.name, !.message = e.message] = e
                    /\ e.name \in {"MulterError", "UnknownError"}

FixedRules ==
  { "TooLarge", "URIError", "DocumentNotFoundError", "VersionError", "ParallelSaveError",
    "Connectivity", "JsonWebTokenError", "TokenExpiredError", "NotBeforeError" }

\* The status, message and errors of each of them.
FixedResponse(rule) ==
  CASE rule = "TooLarge" ->
         [ code |-> 413, message |-> "JSON payload too large",
           errors |-> Strings(<< "The request body data exceeds the maximum size limit" >>) ]
    [] rule = "URIError" ->
         [ code |-> 400, message |-> "Malformed URI",
           errors |-> Strings(<< "The request URL contains invalid or malformed URI components" >>) ]
    [] rule = "DocumentNotFoundError" ->
         [ code |-> 404, message |-> "Requested resource not found",
           errors |-> Strings(<< "The record being accessed does not exist in the database" >>) ]
    [] rule = "VersionError" ->
         [ code |-> 409, message |-> "Concurrent modification error",
           errors |-> Fields(<< [ field |-> "_v",
                                  message |-> "The record being modified has been concurrently modified. Refresh and try again." ] >>) ]
    [] rule = "ParallelSaveError" ->
         [ code |-> 409, message |-> "Parallel save error",
           errors |-> Strings(<< "The same document cannot be saved multiple times in parallel" >>) ]
    [] rule = "Connectivity" ->
         [ code |-> 503, message |-> "Database connection error",
           errors |-> Strings(<< "Unable to connect to MongoDB database server. Please try again later." >>) ]
    [] rule = "JsonWebTokenError" ->
         [ code |-> 401, message |-> "Invalid token",
           errors |-> Strings(<< "Provided token is invalid. Please log in again." >>) ]
    [] rule = "TokenExpiredError" ->
         [ code |-> 401, message |-> "Expired token",
           errors |-> Strings(<< "Your session has expired. Please log in again to refresh." >>) ]
    [] rule = "NotBeforeError" ->
         [ code |-> 401, message |-> "Token not active",
           errors |-> Strings(<< "The token has yet to be activated. Please try again later." >>) ]

\* C22: an error first matched by the entity.too.large rule (413), the
\* URIError rule (400), or the rule for the name DocumentNotFoundError (404),
\* VersionError (409), ParallelSaveError (409), MongooseServerSelectionError
\* or MongoNetworkError (503, same body), JsonWebTokenError, TokenExpiredError
\* or NotBeforeError (401) gets that rule's fixed status, message and errors,
\* whatever its message and other attributes are.
C22_FixedBodies ==
  (Dispatched /\ FirstSatisfied(err) \in FixedRules) =>
    LET fixed == FixedResponse(FirstSatisfied(err))
    IN  Answered(fixed.code, fixed.message, fixed.errors)

\* A MongoNetworkError carrying a message of its own got the fixed 503 response.
C22_Witness ==
  /\ Dispatched /\ err.name = "MongoNetworkError" /\ TruthyStr(err.message)
  /\ Answered(503, "Database connection error",
       Strings(<< "Unable to connect to MongoDB database server. Please try again later." >>))

\* The rules whose response reads further attributes of the error.
ReadingRules ==
  {"ValidationError", "DuplicateKey", "CastError", "StrictModeError", "ZodError", "Declared"}

\* C23: an error that is first matched by a rule reading further attributes
\* (errors, keyPattern, path, value, issues and their paths, message) gets a
\* response from that rule, and the call does not throw, also when those
\* attributes are absent or null.
C23_AbsentFieldsTolerated ==
  (Dispatched /\ FirstSatisfied(err) \in ReadingRules) =>
    LET sink == SinkCalls(result.calls) IN
      /\ result.outcome = "returned"
      /\ Len(sink) = 2
      /\ sink[1].op = "status" /\ sink[2].op = "json"

\* The statement of C23 for the rules that only print or copy what they read.
AbsentFieldsToleratedByCopyingRules ==
  (Dispatched /\ FirstSatisfied(err) \in {"CastError", "StrictModeError", "Declared"}) =>
    LET sink == SinkCalls(result.calls) IN
      /\ result.outcome = "returned"
      /\ Len(sink) = 2
      /\ sink[1].op = "status" /\ sink[2].op = "json"

C25_AnyOptionsAccepted ==
  /\ phase # "failed"
  /\ (phase \in {"ready", "dispatched"} /\ options # NullV) =>
       /\ options.logErrors = "omitted" => logErrors = (env \in {"development", "test"})
       /\ options.exposeStack = "omitted" => ~exposeStack
       /\ options.logger = "omitted" => logger = "console.error"
       /\ options.customHandlers = Omitted => customHandlers = << >>
  /\ Dispatched => result.outcome = "returned" /\ Len(CallsOf("json")) = 1

\* The part of C25 about defaults: a missing option takes its default, and a
\* middleware whose logger and custom handlers are functions answers.
DefaultsTaken ==
  (phase \in {"ready", "dispatched"} /\ options # NullV) =>
    /\ options.logErrors = "omitted" => logErrors = (env \in {"development", "test"})
    /\ options.exposeStack = "omitted" => ~exposeStack
    /\ options.logger = "omitted" => logger = "console.error"
    /\ options.customHandlers = Omitted => customHandlers = << >>
    /\ (Dispatched /\ logger \notin {Null, NotCallable}
          /\ \A i \in 1..Len(customHandlers) : customHandlers[i] # NotCallable) =>
         result.outcome = "returned" /\ Len(CallsOf("json")) = 1

\* C26: with logErrors true, a middleware call invokes the logger given in
\* the options, and never console.error, when one was given, and invokes
\* console.error when none was given.
C26_LoggerSelection ==
  (Dispatched /\ logErrors) =>
    /\ Len(CallsOf("log")) = 1
    /\ options.logger # "omitted" =>
         \A p \in Positions :
           result.calls[p].op = "log" =>
             result.calls[p].logger = options.logger /\ result.calls[p].logger # "console.error"
    /\ options.logger = "omitted" => CallsOf("log")[1].logger = "console.error"

\* A middleware created with a logger of the caller logged through it.
C26_Witness ==
  /\ Dispatched /\ logErrors /\ options.logger = "mockLogger"
  /\ Len(CallsOf("log")) = 1
  /\ CallsOf("log")[1].logger = "mockLogger"

\* The n-th custom handler was called, returned a truthy value and made no
\* call on the response sink.
AnsweredSilently(n) ==
  /\ n <= Len(CallsOf("handler"))
  /\ TruthyStr(HandlerCall(customHandlers[n], n, err).ret)
  /\ HandlerCall(customHandlers[n], n, err).calls = << >>

InvokedNext == SelectSeq(result'.calls, LAMBDA c : c.op = "handler")

\* That call ran the handlers of the array, in order, up to the first that
\* returned a truthy value.
RanArrayNext(array) ==
  /\ Len(InvokedNext) <= Len(array)
  /\ \A n \in 1..Len(InvokedNext) :
       InvokedNext[n].index = n /\ InvokedNext[n].kind = array[n]
  /\ \/ Len(InvokedNext) = Len(array)
     \/ /\ Len(InvokedNext) >= 1
        /\ TruthyStr(HandlerCall(array[Len(InvokedNext)], Len(InvokedNext), err').ret)

\* C28: the middleware iterates the caller's customHandlers array itself:
\* after any pushes to and removals from it, a call runs the handlers the
\* array holds at that call; reassigning logErrors, exposeStack, logger or
\* customHandlers on the options object changes neither the closed-over
\* configuration nor any later call.
C28_ArrayByReference ==
  [][ /\ (caller'.served = caller.served + 1 /\ caller.shared) =>
           RanArrayNext(options.customHandlers.v)
      /\ caller'.served = caller.served + 1 =>
           /\ RanArrayNext(customHandlers)
           /\ LoggedNext <=> logErrors
           /\ result' = Middleware(logErrors, exposeStack, logger, customHandlers, err')
      /\ (options' # options /\ customHandlers' = customHandlers) => config' = config
      /\ caller.shared /\ ~caller'.shared => customHandlers' = customHandlers ]_vars

\* A call ran two handlers of an array that held at most one when the
\* middleware was created, and logged or not as resolved then although
\* options.logErrors was reassigned since.
C28_Witness ==
  /\ Dispatched /\ caller.served >= 1
  /\ caller.shared
  /\ Len(CallsOf("handler")) = 2
  /\ CallsOf("handler")[2].kind = options.customHandlers.v[2]
  /\ options.logErrors # (IF logErrors THEN "true" ELSE "false")
  /\ (CallsOf("log") # << >>) <=> logErrors

\* C29: in a call answered by a built-in rule or the catch-all, the
\* middleware calls res.status once, then json once on the value res.status
\* returned, makes no other call on the response before or after, and
\* returns the value json returned.
C29_StatusThenJson ==
  (Dispatched /\ \E p \in Positions :
                   result.calls[p].op = "json" /\ ~IsHandlerCall(result.calls[p])) =>
    LET own == SinkCalls(OwnCalls(result.calls))
        n == Len(result.calls)
    IN  /\ Len(own) = 2
        /\ own[1].op = "status" /\ own[2].op = "json"
        /\ own[2].by = own[1].by
        /\ own[2].on = "res.status(code)"
        /\ n >= 2 /\ result.calls[n - 1] = own[1] /\ result.calls[n] = own[2]
        /\ result.outcome = "returned"
        /\ result.ret = "res"

\* A built-in rule answered after the logger call and two custom handlers
\* that returned nothing and wrote nothing.
C29_Witness ==
  /\ Dispatched /\ logErrors
  /\ Len(CallsOf("handler")) = 2
  /\ Len(SinkCalls(result.calls)) = 2
  /\ CallsOf("json")[1].by = "ValidationError"
  /\ CallsOf("json")[1].on = "res.status(code)"
  /\ result.ret = "res"

\* C30: a middleware call with no custom handlers only reads its inputs: the
\* error value, the options and the closed-over configuration are after the
\* call what they were before it, and all the call does is at most one
\* logger call and the calls on the response.
C30_Frame ==
  [][ (phase = "ready" /\ phase' = "dispatched" /\ customHandlers = << >>) =>
        /\ err' = err
        /\ config' = config
        /\ options' = options /\ env' = env
        /\ \A p \in 1..Len(result'.calls) :
             result'.calls[p].op \in {"log", "chain", "status", "json"}
        /\ Len(SelectSeq(result'.calls, LAMBDA c : c.op = "log")) <= 1
        /\ \A p \in 1..Len(result'.calls) :
             result'.calls[p].op \in {"status", "json"} =>
               result'.calls[p].by \in {RuleOrder[i] : i \in 1..Len(RuleOrder)} ]_vars

\* An error carrying a stack was logged with it and answered, and still
\* carries it.
C30_Witness ==
  /\ Dispatched /\ customHandlers = << >>
  /\ logErrors /\ exposeStack
  /\ TruthyStr(err.stack)
  /\ Len(CallsOf("log")) = 1
  /\ CallsOf("log")[1].details.stack = << err.stack >>
  /\ Len(CallsOf("json")) = 1

====
